---- MODULE Spec2Model ----
(***************************************************************************)
(* Model of the RAG assistant's orchestrator (rag_engine.py) and of the    *)
(* UI / CLI handlers that drive it (app.py, cli.py).                       *)
(*                                                                         *)
(* The external capabilities (model download and load, ChromaDB, the       *)
(* LlamaIndex index / retriever / synthesizer) are not part of the         *)
(* repository.  Each call into them is modelled by its effect on the       *)
(* engine's fields and on the persisted collection, and by an outcome      *)
(* (returns / raises) chosen by the environment; the code's try / except   *)
(* structure decides what happens with each outcome.                       *)
(***************************************************************************)
EXTENDS Integers, Sequences, FiniteSets, TLC

\* ---------------------------------------------------------------- bounds
MaxBatches == 2      \* ingest requests that produce documents, per run
MaxDocs == 3         \* chunks produced by one ingest request
MaxPersisted == 1    \* chunks already in the persisted collection at start
MaxTokens == 2       \* text increments produced by one generation
MaxHits == 6         \* chunks of the index that match one question
MaxShown == 4        \* chunks of the index that match a question put for display
MaxExtra == 2        \* characters by which a chunk text exceeds the preview

\* ------------------------------------------------------- values and text
\* A Python attribute that is None is 0; an index object is a positive id.
NoObj == 0

\* A chunk is <<batch, position>>; batch 0 is what an earlier process persisted.
Docs(b, n) == [i \in 1..n |-> <<b, i>>]

\* Strings are sequences of symbols; a fixed message is a one-symbol string.
NotReadyMsg == <<"RAG system not initialized. Please add documents first.">>
ErrorMsg == <<"Error processing query: ">>
WrapperNotReadyMsg == <<"RAG system not initialized or no documents loaded">>

Symbols == {"a", "b"}

RECURSIVE Concat(_)
\* "".join(increments): the text a sequence of increments adds up to
Concat(incs) == IF incs = <<>> THEN <<>> ELSE Head(incs) \o Concat(Tail(incs))

\* the increments a generation can produce: each one symbol long
Increment == {<<s>> : s \in Symbols}
TokenSeqs == UNION {[1..n -> Increment] : n \in 0..MaxTokens}

\* NoFail: the generation runs to its end; fail = j: the query engine raises
\* after j increments were produced (j = 0 covers a failing retrieval).
NoFail == -1
GenOutcomes ==
    {g \in [toks : TokenSeqs, fail : {NoFail} \cup (0..MaxTokens), has_gen : BOOLEAN] :
        /\ g.fail <= Len(g.toks)
        /\ (~g.has_gen => g.fail \in {NoFail, 0})}

\* ------------------------------------------------------------ the engine
\* RAGEngine.__init__: every attribute None
NewEngine ==
    [model_setup |-> FALSE, llm |-> FALSE, vector_store |-> FALSE,
     index |-> NoObj, query_engine |-> NoObj, nobj |-> 0]

NoEngine == <<>>

VARIABLES
    rag_engine,     \* app.rag_engine / RAGCLIApp.rag_engine: <<>> (None) or <<engine>>
    collection,     \* the persisted ChromaDB collection: sequence of chunks
    next_batch,     \* id the next ingest request's documents get
    session_added,  \* chunks inserted by this process's ingest requests
    last,           \* what the last operation did and answered
    handlers,       \* the ingest requests in progress, one per UI handler thread
    chat_history,   \* app.chat_history / RAGCLIApp.chat_history
    answered,       \* the answers the chat handlers returned, in order
    saved_files     \* the writes of chat-history files into LOGS_DIR, in order

vars == <<rag_engine, collection, next_batch, session_added, last, handlers,
          chat_history, answered, saved_files>>

\* --------------------------------------------------- engine operations
\* Every operation takes the engine and the collection and returns the new
\* engine, the new collection, whether an exception left the call, and how
\* many insertions into the vector store it completed.

Result(e, coll, raised, added) ==
    [e |-> e, coll |-> coll, raised |-> raised, added |-> added]

\* setup_model: model_setup is assigned before the download is attempted;
\* m is what the download / load / LlamaCPP wrapper did.
ModelOutcomes == {"ok", "download_failed", "load_failed", "wrapper_raised"}

setup_model(e, m) ==
    [e |-> [e EXCEPT !.model_setup = TRUE, !.llm = (m = "ok")],
     ret |-> (m = "ok")]

\* setup_vector_store: opens the persistent collection (get_or_create)
setup_vector_store(e, coll, ok) ==
    IF ok THEN Result([e EXCEPT !.vector_store = TRUE], coll, FALSE, 0)
          ELSE Result(e, coll, TRUE, 0)

\* an insertion that replaces the collection's contents instead of adding
Insert_replacing(coll, doc) == <<doc>>

\* one insertion into the vector store: the chunk is added at the end
Insert(coll, doc) == Append(coll, doc)

RECURSIVE InsertLoop_continuing(_, _, _, _)
\* an insert loop that skips the chunk whose insertion raises, goes on with
\* the rest and raises at the end
InsertLoop_continuing(coll, docs, i, fail) ==
    IF i > Len(docs)
    THEN [coll |-> coll, raised |-> fail # 0,
          done |-> IF fail # 0 THEN Len(docs) - 1 ELSE Len(docs)]
    ELSE IF i = fail THEN InsertLoop_continuing(coll, docs, i + 1, fail)
    ELSE InsertLoop_continuing(Append(coll, docs[i]), docs, i + 1, fail)

RECURSIVE InsertLoop(_, _, _, _)
\* `for doc in documents: self.index.insert(doc)`, the i-th insertion
\* onwards; the insertion of chunk number `fail` raises (0: none does).
InsertLoop(coll, docs, i, fail) ==
    IF i > Len(docs) THEN [coll |-> coll, raised |-> FALSE, done |-> i - 1]
    ELSE IF i = fail THEN [coll |-> coll, raised |-> TRUE, done |-> i - 1]
    ELSE InsertLoop(Insert(coll, docs[i]), docs, i + 1, fail)

\* create_index: env = [vs, fail, load]
create_index(e, coll, docs, env) ==
    LET vs == IF e.vector_store THEN Result(e, coll, FALSE, 0)
              ELSE setup_vector_store(e, coll, env.vs)
    IN  IF vs.raised THEN vs
        ELSE IF docs # <<>>
        THEN \* VectorStoreIndex.from_documents
             LET ins == InsertLoop(coll, docs, 1, env.fail)
             IN  IF ins.raised THEN Result(vs.e, ins.coll, TRUE, ins.done)
                 ELSE Result([vs.e EXCEPT !.index = vs.e.nobj + 1,
                                          !.nobj = vs.e.nobj + 1],
                             ins.coll, FALSE, ins.done)
        ELSE \* VectorStoreIndex.from_vector_store
             IF env.load
             THEN Result([vs.e EXCEPT !.index = vs.e.nobj + 1,
                                      !.nobj = vs.e.nobj + 1], coll, FALSE, 0)
             ELSE Result(vs.e, coll, TRUE, 0)

\* setup_query_engine: builds retriever + synthesizer + postprocessor over
\* self.index; ok is whether the library constructors return.
setup_query_engine(e, coll, ok) ==
    IF e.index = NoObj THEN Result(e, coll, TRUE, 0)
    ELSE IF ok THEN Result([e EXCEPT !.query_engine = e.index], coll, FALSE, 0)
    ELSE Result(e, coll, TRUE, 0)

\* add_documents without the query-engine refresh of line 198
add_documents_no_refresh(e, coll, docs, env) ==
    IF docs = <<>> THEN Result(e, coll, FALSE, 0)
    ELSE IF e.index = NoObj
         THEN create_index(e, coll, docs, env)
         ELSE LET l == InsertLoop(coll, docs, 1, env.fail)
              IN  Result(e, l.coll, l.raised, l.done)

\* add_documents: env = [vs, fail, load, qe]
add_documents(e, coll, docs, env) ==
    IF docs = <<>> THEN Result(e, coll, FALSE, 0)
    ELSE LET ins == IF e.index = NoObj
                    THEN create_index(e, coll, docs, env)
                    ELSE LET l == InsertLoop(coll, docs, 1, env.fail)
                         IN  Result(e, l.coll, l.raised, l.done)
         IN  IF ins.raised THEN ins
             ELSE LET q == setup_query_engine(ins.e, ins.coll, env.qe)
                  IN  Result(q.e, q.coll, q.raised, ins.added)

\* process_and_add_directory / process_and_add_file: docs is what the
\* document processor returned for the path
process_and_add(e, coll, docs, env) ==
    IF docs # <<>> THEN add_documents(e, coll, docs, env)
    ELSE Result(e, coll, FALSE, 0)

\* initialize_system: env = [model, vs, load, qe]
initialize_system(e, coll, env) ==
    LET m == setup_model(e, env.model)
    IN  IF ~m.ret THEN [e |-> m.e, coll |-> coll, ret |-> FALSE]
        ELSE LET vs == setup_vector_store(m.e, coll, env.vs)
             IN  IF vs.raised THEN [e |-> vs.e, coll |-> coll, ret |-> FALSE]
                 ELSE LET ci == create_index(vs.e, vs.coll, <<>>,
                                    [vs |-> TRUE, fail |-> 0, load |-> env.load])
                          qe == setup_query_engine(ci.e, ci.coll, env.qe)
                      IN  \* the inner try / except swallows either failure
                          IF ci.raised THEN [e |-> ci.e, coll |-> ci.coll, ret |-> TRUE]
                          ELSE [e |-> qe.e, coll |-> qe.coll, ret |-> TRUE]

\* a query without the except clause of lines 249-251
query_propagating(e, g) ==
    IF e.query_engine = NoObj THEN [out |-> NotReadyMsg, raised |-> FALSE, path |-> "not_ready"]
    ELSE IF g.fail # NoFail THEN [out |-> <<>>, raised |-> TRUE, path |-> "engine"]
    ELSE [out |-> Concat(g.toks), raised |-> FALSE, path |-> "engine"]

\* query: g is what retrieval + generation do for this question
query(e, g) ==
    IF e.query_engine = NoObj THEN [out |-> NotReadyMsg, raised |-> FALSE, path |-> "not_ready"]
    ELSE IF g.fail # NoFail THEN [out |-> ErrorMsg, raised |-> FALSE, path |-> "engine"]
    ELSE [out |-> Concat(g.toks), raised |-> FALSE, path |-> "engine"]

\* a streaming query whose except clause yields nothing
query_streaming_silent(e, g) ==
    IF e.query_engine = NoObj THEN <<NotReadyMsg>>
    ELSE IF g.has_gen
         THEN IF g.fail = NoFail THEN g.toks ELSE SubSeq(g.toks, 1, g.fail)
         ELSE IF g.fail = NoFail THEN <<Concat(g.toks)>> ELSE <<>>

\* query_streaming: the sequence of increments the generator yields
query_streaming(e, g) ==
    IF e.query_engine = NoObj THEN <<NotReadyMsg>>
    ELSE IF g.has_gen
         THEN IF g.fail = NoFail THEN g.toks
              ELSE SubSeq(g.toks, 1, g.fail) \o <<ErrorMsg>>
         ELSE IF g.fail = NoFail THEN <<Concat(g.toks)>>
              ELSE <<ErrorMsg>>

\* get_index_stats: count_ok is whether the collection's count() returns
Unknown == -1
Absent == -2
get_index_stats(e, coll, count_ok) ==
    IF e.index = NoObj THEN [status |-> "No index created", document_count |-> Absent]
    ELSE [status |-> "Index loaded",
          document_count |-> IF ~e.vector_store THEN Absent
                             ELSE IF count_ok THEN Len(coll) ELSE Unknown]

\* ------------------------------------------------------------ retrieval
\* A retrieved node is [text, score, file]; scores are in hundredths.
SimilarityCutoff == 70
SimilarityTopK == 5
PreviewLen == 500
Ellipsis == <<".", ".", ".">>

Min(a, b) == IF a < b THEN a ELSE b

\* VectorIndexRetriever(similarity_top_k = k).retrieve: the k best of the
\* index's matches, which the vector store ranks by descending score
retrieve(ranked, k) == SubSeq(ranked, 1, Min(k, Len(ranked)))

\* a postprocessor with the comparison turned round
postprocess_inverted(nodes) ==
    LET Below(n) == n.score <= SimilarityCutoff IN SelectSeq(nodes, Below)

\* SimilarityPostprocessor(similarity_cutoff=0.7): drops what scores below
postprocess(nodes) ==
    LET Passes(n) == n.score >= SimilarityCutoff IN SelectSeq(nodes, Passes)

\* the nodes RetrieverQueryEngine hands to the response synthesizer
synthesis_nodes(ranked) == postprocess(retrieve(ranked, SimilarityTopK))

\* a preview that cuts at one character too many
preview_long(text) ==
    IF Len(text) > PreviewLen THEN SubSeq(text, 1, PreviewLen + 1) \o Ellipsis ELSE text

\* line 290: (node.text[:500] + "...") if len(node.text) > 500 else node.text
preview(text) ==
    IF Len(text) > PreviewLen THEN SubSeq(text, 1, PreviewLen) \o Ellipsis ELSE text

\* get_relevant_documents that retrieves without looking at self.index
get_relevant_documents_unguarded(e, ret, top_k) ==
    IF ret.raised THEN [docs |-> <<>>, raised |-> FALSE]
    ELSE LET nodes == retrieve(ret.ranked, top_k)
         IN  [docs |-> [i \in 1..Len(nodes) |->
                          [content |-> preview(nodes[i].text),
                           score |-> nodes[i].score,
                           metadata |-> nodes[i].file]],
              raised |-> FALSE]

\* get_relevant_documents: ret is what retriever.retrieve does
get_relevant_documents(e, ret, top_k) ==
    IF e.index = NoObj THEN [docs |-> <<>>, raised |-> FALSE]
    ELSE IF ret.raised THEN [docs |-> <<>>, raised |-> FALSE]
    ELSE LET nodes == retrieve(ret.ranked, top_k)
         IN  [docs |-> [i \in 1..Len(nodes) |->
                          [content |-> preview(nodes[i].text),
                           score |-> nodes[i].score,
                           metadata |-> nodes[i].file]],
              raised |-> FALSE]

\* ------------------------------------------------------------- handlers
NoGen == [toks |-> <<>>, fail |-> NoFail, has_gen |-> FALSE]
NoStats == [status |-> "", document_count |-> Absent]
NoReport == [rag_initialized |-> FALSE, model_loaded |-> FALSE, index_created |-> FALSE]

\* the record of an operation: what it was given and what it answered
Idle ==
    [op |-> "none", ok |-> FALSE, raised |-> FALSE, msg |-> "", cause |-> "",
     path |-> "none", out |-> <<>>, gen |-> NoGen, n |-> 0, fail |-> 0,
     inserted |-> 0, pre_index |-> FALSE, report |-> NoReport, stats |-> NoStats,
     hits |-> <<>>, top_k |-> 0, bound |-> <<>>, docs |-> <<>>,
     files |-> <<>>, reports |-> <<>>, envs |-> <<>>,
     processed_count |-> 0, error_count |-> 0,
     written |-> <<>>, loaded |-> <<>>, info |-> <<>>, results |-> <<>>,
     question |-> <<>>, context |-> <<>>]

\* the UI runs each event handler on a worker thread
NumWorkers == 2
Workers == 1..NumWorkers
Resting == [pc |-> "idle", docs |-> <<>>, i |-> 0]

\* worker w is between line 189 and the end of line 198 of add_documents
Mutating(w) == handlers[w].pc \in {"create", "insert", "refresh"}

Engine == rag_engine[1]
HasEngine == rag_engine # NoEngine
\* the generation model of the engine in use was loaded by setup_model
ModelLoaded == HasEngine /\ Engine.llm
HasIndex == HasEngine /\ Engine.index # NoObj
HasQueryEngine == HasEngine /\ Engine.query_engine # NoObj

Init ==
    /\ rag_engine = NoEngine
    /\ collection \in {Docs(0, n) : n \in 0..MaxPersisted}
    /\ next_batch = 1
    /\ session_added = 0
    /\ last = Idle
    /\ handlers = [w \in Workers |-> Resting]
    /\ chat_history = <<>>
    /\ answered = <<>>
    /\ saved_files = <<>>

\* app.initialize_rag_system / RAGCLIApp.initialize_system: a new RAGEngine
\* replaces the one in use, then initialize_system runs on it.  ctor is
\* whether RAGEngine() returns (setup_llamaindex re-raises its failure).
initialize_rag_system(ctor, env) ==
    /\ IF ~ctor
       THEN /\ UNCHANGED <<rag_engine, collection>>
            /\ last' = [Idle EXCEPT !.op = "init", !.msg = "error", !.cause = "constructor"]
       ELSE LET r == initialize_system(NewEngine, collection, env)
            IN  /\ rag_engine' = <<r.e>>
                /\ collection' = r.coll
                /\ last' = [Idle EXCEPT !.op = "init", !.ok = r.ret,
                              !.msg = IF r.ret THEN "initialized" ELSE "failed",
                              !.cause = IF r.ret THEN ""
                                        ELSE IF env.model # "ok" THEN "model"
                                        ELSE "vector_store"]
    /\ UNCHANGED <<next_batch, session_added, handlers, chat_history, answered, saved_files>>

\* app.process_directory: dir is what the path holds, n the number of chunks
\* the document processor returns for it, env the outcomes of the library
\* calls inside add_documents.
process_directory(dir, n, env) ==
    /\ n > 0 => (dir = "ok" /\ next_batch <= MaxBatches)
    /\ env.fail <= n
    /\ IF ~HasEngine
       THEN /\ last' = [Idle EXCEPT !.op = "ingest", !.msg = "not_initialized"]
            /\ UNCHANGED <<rag_engine, collection, next_batch, session_added>>
       ELSE IF dir = "invalid"
       THEN /\ last' = [Idle EXCEPT !.op = "ingest", !.msg = "invalid_path",
                                    !.pre_index = HasIndex]
            /\ UNCHANGED <<rag_engine, collection, next_batch, session_added>>
       ELSE IF dir = "no_supported"
       THEN /\ last' = [Idle EXCEPT !.op = "ingest", !.msg = "no_supported_files",
                                    !.pre_index = HasIndex]
            /\ UNCHANGED <<rag_engine, collection, next_batch, session_added>>
       ELSE LET docs == Docs(next_batch, n)
                r == process_and_add(Engine, collection, docs, env)
            IN  /\ rag_engine' = <<r.e>>
                /\ collection' = r.coll
                /\ next_batch' = IF n > 0 THEN next_batch + 1 ELSE next_batch
                /\ session_added' = session_added + r.added
                /\ last' = [Idle EXCEPT !.op = "ingest", !.ok = ~r.raised,
                              !.raised = r.raised,
                              !.msg = IF r.raised THEN "error" ELSE "success",
                              !.n = n, !.fail = IF r.raised THEN env.fail ELSE 0,
                              !.inserted = r.added, !.pre_index = HasIndex,
                              !.stats = IF r.raised THEN NoStats
                                        ELSE get_index_stats(r.e, r.coll, env.count)]
    /\ UNCHANGED <<handlers, chat_history, answered, saved_files>>

\* A question put to the engine: through the guard of query_single /
\* chat_with_rag / batch_query (surface "wrapper") or straight to
\* RAGEngine.query (surface "engine").
Query(surface, g) ==
    /\ surface = "engine" => HasEngine
    /\ IF surface = "wrapper" /\ ~HasQueryEngine
       THEN last' = [Idle EXCEPT !.op = "query", !.msg = "not_ready",
                       !.path = "not_ready", !.out = WrapperNotReadyMsg]
       ELSE LET r == query(Engine, g)
            IN  last' = [Idle EXCEPT !.op = "query", !.raised = r.raised,
                           !.msg = IF r.path = "not_ready" THEN "not_ready" ELSE "answer",
                           !.path = r.path, !.out = r.out,
                           !.gen = IF r.path = "engine" THEN g ELSE NoGen]
    /\ UNCHANGED <<rag_engine, collection, next_batch, session_added, handlers, chat_history, answered, saved_files>>

\* RAGEngine.query_streaming, consumed to its end
QueryStreaming(g) ==
    /\ HasEngine
    /\ last' = [Idle EXCEPT !.op = "stream",
                  !.path = IF Engine.query_engine = NoObj THEN "not_ready" ELSE "engine",
                  !.out = query_streaming(Engine, g),
                  !.gen = IF Engine.query_engine = NoObj THEN NoGen ELSE g]
    /\ UNCHANGED <<rag_engine, collection, next_batch, session_added, handlers, chat_history, answered, saved_files>>

\* the three flags get_system_status shows (lines 220-229)
status_info ==
    [rag_initialized |-> HasEngine,
     model_loaded |-> HasEngine /\ Engine.model_setup,
     index_created |-> HasIndex]

\* app.get_system_status
get_system_status(count_ok) ==
    /\ last' = [Idle EXCEPT !.op = "status",
                  !.report = status_info,
                  !.stats = IF HasEngine
                            THEN get_index_stats(Engine, collection, count_ok)
                            ELSE NoStats]
    /\ UNCHANGED <<rag_engine, collection, next_batch, session_added, handlers, chat_history, answered, saved_files>>

InitEnvs == [model : ModelOutcomes, vs : BOOLEAN, load : BOOLEAN, qe : BOOLEAN]
IngestEnvs == [vs : BOOLEAN, fail : 0..MaxDocs, qe : BOOLEAN, count : BOOLEAN]

Next ==
    \/ \E ctor \in BOOLEAN, env \in InitEnvs : initialize_rag_system(ctor, env)
    \/ \E dir \in {"invalid", "no_supported", "ok"}, n \in 0..MaxDocs, env \in IngestEnvs :
          process_directory(dir, n, env)
    \/ \E surface \in {"wrapper", "engine"}, g \in GenOutcomes : Query(surface, g)
    \/ \E g \in GenOutcomes : QueryStreaming(g)
    \/ \E count_ok \in BOOLEAN : get_system_status(count_ok)

Spec == Init /\ [][Next]_vars

\* ------------------------------------------- concurrent ingest requests
\* The UI gives every click its own worker thread and the module-level
\* rag_engine is shared by all handlers; add_documents takes no lock.
\* Here add_documents runs one statement at a time, so that two requests
\* can run side by side.  A step is one library call of lines 183-198.

\* lines 183-189: the documents are there, the branch on self.index is taken
BeginIngest(w, n) ==
    /\ HasEngine
    /\ handlers[w].pc = "idle"
    /\ next_batch <= MaxBatches
    /\ handlers' = [handlers EXCEPT ![w] =
                      [pc |-> IF Engine.index = NoObj THEN "create" ELSE "insert",
                       docs |-> Docs(next_batch, n), i |-> 1]]
    /\ next_batch' = next_batch + 1
    /\ UNCHANGED <<rag_engine, collection, session_added, last, chat_history, answered, saved_files>>

\* line 191: self.create_index(documents)
CreateStep(w, env) ==
    /\ handlers[w].pc = "create"
    /\ env.fail <= Len(handlers[w].docs)
    /\ LET r == create_index(Engine, collection, handlers[w].docs, env)
       IN  /\ rag_engine' = <<r.e>>
           /\ collection' = r.coll
           /\ session_added' = session_added + r.added
           /\ handlers' = [handlers EXCEPT ![w] =
                             IF r.raised THEN Resting
                             ELSE [@ EXCEPT !.pc = "refresh"]]
    /\ UNCHANGED <<next_batch, last, chat_history, answered, saved_files>>

\* lines 194-195: one turn of the insert loop
InsertStep(w, ok) ==
    /\ handlers[w].pc = "insert"
    /\ LET h == handlers[w]
       IN  IF ~ok
           THEN /\ handlers' = [handlers EXCEPT ![w] = Resting]
                /\ UNCHANGED <<collection, session_added>>
           ELSE /\ collection' = Insert(collection, h.docs[h.i])
                /\ session_added' = session_added + 1
                /\ handlers' = [handlers EXCEPT ![w] =
                                  IF h.i = Len(h.docs) THEN [h EXCEPT !.pc = "refresh"]
                                  ELSE [h EXCEPT !.i = h.i + 1]]
    /\ UNCHANGED <<rag_engine, next_batch, last, chat_history, answered, saved_files>>

\* line 198: self.setup_query_engine()
RefreshStep(w, ok) ==
    /\ handlers[w].pc = "refresh"
    /\ rag_engine' = <<setup_query_engine(Engine, collection, ok).e>>
    /\ handlers' = [handlers EXCEPT ![w] = Resting]
    /\ UNCHANGED <<collection, next_batch, session_added, last, chat_history, answered, saved_files>>

\* the generations of at most one increment: enough for a query that runs
\* beside the ingest requests
ShortGenOutcomes == {g \in GenOutcomes : g.has_gen /\ Len(g.toks) <= 1}

\* Initialize is taken only between ingest requests here: a request in
\* progress keeps working on the engine object it was called on.
InitializeBetweenRequests(ctor, env) ==
    /\ \A w \in Workers : ~Mutating(w)
    /\ initialize_rag_system(ctor, env)

NextConc ==
    \/ \E ctor \in BOOLEAN, env \in InitEnvs : InitializeBetweenRequests(ctor, env)
    \/ \E w \in Workers, n \in 1..MaxDocs : BeginIngest(w, n)
    \/ \E w \in Workers, env \in [vs : BOOLEAN, fail : 0..MaxDocs, load : BOOLEAN] :
          CreateStep(w, env)
    \/ \E w \in Workers, ok \in BOOLEAN : InsertStep(w, ok)
    \/ \E w \in Workers, ok \in BOOLEAN : RefreshStep(w, ok)
    \/ \E surface \in {"wrapper", "engine"}, g \in ShortGenOutcomes : Query(surface, g)

SpecConc == Init /\ [][NextConc]_vars

\* ---------------------------------------------------------------- claims

\* C1: while the collection holds no chunk (nothing persisted, nothing
\* inserted yet), a query is answered with the not-ready message, is not
\* passed to retrieval or generation, and does not raise.
C1_NotReadyBeforeIngestion ==
    (last.op = "query" /\ Len(collection) = 0)
        => (last.path = "not_ready" /\ ~last.raised)

\* C2: once the engine in use has an index, no operation returns the
\* system to the no-index state.
C2_IndexedMonotonic == [][HasIndex => HasIndex']_vars

\* C3: after an Initialize that failed because the model could not be
\* downloaded or loaded, the status shows the model as not loaded and no
\* index or query engine is set.
C3_FailedInitUninitialized ==
    (last.op = "init" /\ last.cause = "model")
        => /\ ~last.ok
           /\ ~status_info.model_loaded
           /\ ~HasIndex
           /\ ~HasQueryEngine

\* C4: an ingest request that names a valid source, made while the
\* generation model is not loaded, inserts nothing and is answered
\* not-initialized.
C4_IngestNeedsModel ==
    [][(last'.op = "ingest" /\ ~ModelLoaded
          /\ last'.msg \notin {"invalid_path", "no_supported_files"})
        => (collection' = collection /\ last'.msg = "not_initialized")]_vars

\* C5: an ingest from ModelReady(no index) that returns after inserting at
\* least one chunk leaves index and query engine set, and the next query is
\* passed to retrieval and generation.
C5_FirstIngestIndexes ==
    [][/\ (last'.op = "ingest" /\ last'.ok /\ last'.inserted >= 1
             /\ ModelLoaded /\ ~HasIndex)
          => (HasIndex' /\ HasQueryEngine')
       /\ (last.op = "ingest" /\ last.ok /\ last.inserted >= 1
             /\ ~last.pre_index /\ last'.op = "query")
          => last'.path = "engine"]_vars

C5_Witness ==
    /\ last.op = "ingest" /\ last.ok /\ last.inserted >= 1 /\ ~last.pre_index
    /\ ModelLoaded

\* C6: a query whose retrieval or generation fails returns the error
\* string without raising and leaves engine and collection as they were;
\* the query after it is passed to the engine and, if its generation
\* succeeds, answered with the generated text.
C6_QueryFailureContained ==
    [][/\ (last'.op = "query" /\ last'.path = "engine" /\ last'.gen.fail # NoFail)
          => /\ ~last'.raised
             /\ last'.out = ErrorMsg
             /\ rag_engine' = rag_engine
             /\ collection' = collection
       /\ (last.op = "query" /\ last.path = "engine" /\ last.gen.fail # NoFail
             /\ last'.op = "query")
          => /\ last'.path = "engine"
             /\ ~last'.raised
             /\ (last'.gen.fail = NoFail => last'.out = Concat(last'.gen.toks))]_vars

C6_Witness ==
    last.op = "query" /\ last.path = "engine" /\ last.gen.fail # NoFail

\* C7: the number of chunks in the collection never decreases, and a
\* reported document count is at least the number of chunks this session's
\* ingest requests have inserted.
C7_AppendOnly ==
    /\ [][Len(collection') >= Len(collection)]_vars
    /\ [](last.stats.document_count >= 0
            => last.stats.document_count >= session_added)

C7_Witness ==
    last.op = "status" /\ session_added >= 2 /\ last.stats.document_count >= 2

\* C8: when the insertion of the k-th chunk of a batch into an existing
\* index raises, the collection is its prior contents followed by the
\* first k-1 chunks of the batch, the exception reaches the caller, and the
\* engine (index and query engine) is as it was.
C8_PartialBatch ==
    [][(last'.op = "ingest" /\ last'.fail >= 1 /\ HasIndex)
        => /\ collection' =
                collection \o SubSeq(Docs(next_batch, last'.n), 1, last'.fail - 1)
           /\ last'.raised
           /\ last'.msg = "error"
           /\ rag_engine' = rag_engine]_vars

C8_Witness ==
    /\ last.op = "ingest" /\ last.pre_index /\ last.raised
    /\ last.fail >= 2 /\ last.fail < last.n
    /\ last.inserted = last.fail - 1

\* C9: two ingest requests never mutate the index at the same time, and the
\* chunks of one request are not separated by chunks of another.
C9_IngestSerialized ==
    /\ \A v, w \in Workers : (Mutating(v) /\ Mutating(w)) => v = w
    /\ \A i, j, k \in 1..Len(collection) :
          (i < j /\ j < k /\ collection[i][1] = collection[k][1])
              => collection[j][1] = collection[i][1]

\* C10 as stated: the increments of query_streaming add up to the string
\* query returns for the same question, engine state and generation.
C10_StreamEqualsQuery ==
    last.op = "stream" => Concat(last.out) = query(Engine, last.gen).out

\* C10 amended: the increments add up to the increments yielded before a
\* failure followed by the string query returns; the two are equal unless
\* generation fails after at least one increment.
C10_StreamEndsWithQuery ==
    last.op = "stream"
        => LET yielded == IF last.gen.fail >= 1
                          THEN Concat(SubSeq(last.gen.toks, 1, last.gen.fail))
                          ELSE <<>>
           IN  Concat(last.out) = yielded \o query(Engine, last.gen).out

C10_Witness ==
    last.op = "stream" /\ last.path = "engine" /\ last.gen.fail >= 1

\* ------------------------------------------------- retrieval: the model
\* a chunk text of n characters
Text(n) == [i \in 1..n |-> IF i % 2 = 1 THEN "a" ELSE "b"]

\* the text lengths tried: around the preview length
TextLens == <<0, 1, PreviewLen - 1, PreviewLen, PreviewLen + 1, PreviewLen + MaxExtra>>

Scores == {69, 70, 71}

\* what the index can match for a question on the generation path: up to
\* MaxHits nodes, best first
GenHits ==
    {h \in UNION {[1..n -> [text : {Text(1)}, score : Scores, file : {"f"}]] :
                    n \in 0..MaxHits} :
        \A i \in 1..(Len(h) - 1) : h[i].score >= h[i + 1].score}

\* n matches whose texts run through TextLens from position t on
DisplayHits(n, t) ==
    [i \in 1..n |-> [text |-> Text(TextLens[((t + i - 2) % Len(TextLens)) + 1]),
                     score |-> 90 - i, file |-> "f"]]

RetrieverOutcomes ==
    {[raised |-> TRUE, ranked |-> DisplayHits(1, 1)]}
        \cup {[raised |-> FALSE, ranked |-> DisplayHits(n, t)] :
                 n \in 0..MaxShown, t \in 1..Len(TextLens)}

\* the outcomes of Initialize and of an ingest that matter to retrieval:
\* whether index and query engine come to exist
RetrievalInitEnvs == {env \in InitEnvs : env.model \in {"ok", "download_failed"}}
RetrievalIngestEnvs == {env \in IngestEnvs : env.fail = 0 /\ env.count}

\* line 245, self.query_engine.query(question): retrieval and cutoff, up
\* to the call of the response synthesizer
query_engine_query(ranked) ==
    /\ HasQueryEngine
    /\ last' = [Idle EXCEPT !.op = "synthesize", !.hits = ranked,
                            !.bound = synthesis_nodes(ranked)]
    /\ UNCHANGED <<rag_engine, collection, next_batch, session_added, handlers, chat_history, answered, saved_files>>

\* RAGEngine.get_relevant_documents(question, top_k)
relevant_documents(ret, top_k) ==
    /\ HasEngine
    /\ LET r == get_relevant_documents(Engine, ret, top_k)
       IN  last' = [Idle EXCEPT !.op = "relevant", !.hits = ret.ranked,
                      !.ok = ~ret.raised, !.raised = r.raised, !.docs = r.docs,
                      !.top_k = top_k, !.pre_index = HasIndex]
    /\ UNCHANGED <<rag_engine, collection, next_batch, session_added, handlers, chat_history, answered, saved_files>>

\* the callers pass top_k = 3; the default is 5
TopKs == {3, 5}

NextRetrieval ==
    \/ \E env \in RetrievalInitEnvs : initialize_rag_system(TRUE, env)
    \/ \E env \in RetrievalIngestEnvs : process_directory("ok", 1, env)
    \/ \E ranked \in GenHits : query_engine_query(ranked)
    \/ \E ret \in RetrieverOutcomes, top_k \in TopKs : relevant_documents(ret, top_k)

SpecRetrieval == Init /\ [][NextRetrieval]_vars

\* C11: every node handed to answer synthesis is one of the first
\* SimilarityTopK matches and scores at least the cutoff of 0.7.
C11_CutoffOnGenerationPath ==
    last.op = "synthesize"
        => /\ \A i \in 1..Len(last.bound) :
                 last.bound[i].score >= SimilarityCutoff
           /\ Len(last.bound) <= SimilarityTopK

C11_Witness ==
    /\ last.op = "synthesize"
    /\ Len(last.bound) >= 1
    /\ \E i \in 1..Len(last.hits) :
          i <= SimilarityTopK /\ last.hits[i].score < SimilarityCutoff

\* C12: without an index, or when the retriever raises,
\* get_relevant_documents returns the empty sequence, does not raise and
\* changes nothing.
C12_NoIndexNoDocuments ==
    [][(last'.op = "relevant" /\ (~HasIndex \/ ~last'.ok))
        => /\ last'.docs = <<>>
           /\ ~last'.raised
           /\ UNCHANGED <<rag_engine, collection, next_batch, session_added, handlers>>]_vars

C12_Witness ==
    last.op = "relevant" /\ ~last.pre_index /\ last.ok /\ Len(last.hits) >= 1

\* C13 as stated: every displayed content is at most PreviewLen characters
\* long, and a text of at most PreviewLen characters is shown unchanged.
C13_PreviewWithinBound ==
    last.op = "relevant"
        => \A i \in 1..Len(last.docs) :
              /\ Len(last.docs[i].content) <= PreviewLen
              /\ Len(last.hits[i].text) <= PreviewLen
                    => last.docs[i].content = last.hits[i].text

\* C13 amended: a text of at most PreviewLen characters is shown unchanged;
\* a longer one is shown as its first PreviewLen characters followed by
\* "...", which is PreviewLen + 3 characters.
C13_PreviewPlusEllipsis ==
    last.op = "relevant"
        => \A i \in 1..Len(last.docs) :
              LET text == last.hits[i].text
                  content == last.docs[i].content
              IN  /\ Len(content) <= PreviewLen + 3
                  /\ Len(text) <= PreviewLen => content = text
                  /\ Len(text) > PreviewLen
                        => content = SubSeq(text, 1, PreviewLen) \o Ellipsis

C13_Witness ==
    /\ last.op = "relevant"
    /\ \E i \in 1..Len(last.docs) : Len(last.hits[i].text) > PreviewLen + 1

\* -------------------------------------------------- document processing
\* A file is [name, ext, size, conv, text, readable, raw, nodes, boom]:
\*   size      bytes
\*   conv      what converter.convert does: "ok" or "raises"
\*   text      the element text the converter found
\*   readable  whether open(...).read() of the fallback returns
\*   raw       the file's content as the fallback reads it
\*   nodes     the number of nodes the sentence splitter makes of the text
\*   boom      whether the splitter raises on this file's text
SUPPORTED_EXTENSIONS == {".pdf", ".docx", ".txt", ".md", ".csv", ".xlsx"}
SupportedOrder == <<".pdf", ".docx", ".txt", ".md", ".csv", ".xlsx">>
MAX_FILE_SIZE_MB == 50
BytesPerMB == 1048576

\* str.lower() on the extensions used here
Lower(ext) == CASE ext = ".TXT" -> ".txt" [] ext = ".PDF" -> ".pdf" [] OTHER -> ext

\* is_supported_file
is_supported_file(f) == Lower(f.ext) \in SUPPORTED_EXTENSIONS

\* a size check that also turns away a file of exactly the cap
too_large_inclusive(size) == size >= MAX_FILE_SIZE_MB * BytesPerMB

\* get_file_size_mb(path) > config.MAX_FILE_SIZE_MB; the division by 2^20
\* is exact in floating point, so this is a comparison of byte counts
too_large(size) == size > MAX_FILE_SIZE_MB * BytesPerMB

RECURSIVE Strip(_)
\* str.strip(): leading and trailing blanks removed
Strip(t) ==
    IF t = <<>> THEN t
    ELSE IF Head(t) = " " THEN Strip(Tail(t))
    ELSE IF t[Len(t)] = " " THEN Strip(SubSeq(t, 1, Len(t) - 1))
    ELSE t

\* a fallback that gives up on every file type
fallback_processing_none(f) == <<>>

\* fallback_processing: plain read of .txt and .md, nothing for the rest
fallback_processing(f) ==
    IF Lower(f.ext) \in {".txt", ".md"}
    THEN IF f.readable THEN f.raw ELSE <<>>
    ELSE <<>>

\* process_with_docling
process_with_docling(f) ==
    IF f.conv = "ok" THEN Strip(f.text) ELSE fallback_processing(f)

\* the chunk documents of lines 132-142, numbered from 1
chunk_documents_from_one(f, n) ==
    [i \in 1..n |->
        [text |-> <<f.name, i>>,
         metadata |-> [file_path |-> f.name, file_name |-> f.name,
                       file_type |-> Lower(f.ext), file_size |-> f.size,
                       chunk_id |-> i, total_chunks |-> n]]]

\* lines 132-142: one Document per node, in order; enumerate counts from 0
chunk_documents(f, n) ==
    [i \in 1..n |->
        [text |-> <<f.name, i>>,
         metadata |-> [file_path |-> f.name, file_name |-> f.name,
                       file_type |-> Lower(f.ext), file_size |-> f.size,
                       chunk_id |-> i - 1, total_chunks |-> n]]]

\* process_file: the documents returned, whether it raised, whether the
\* file was passed to text extraction, and the text extracted
process_file(f) ==
    IF ~is_supported_file(f)
    THEN [docs |-> <<>>, raised |-> FALSE, extracted |-> FALSE, text |-> <<>>]
    ELSE IF too_large(f.size)
    THEN [docs |-> <<>>, raised |-> FALSE, extracted |-> FALSE, text |-> <<>>]
    ELSE LET text == process_with_docling(f)
         IN  IF text = <<>>
             THEN [docs |-> <<>>, raised |-> FALSE, extracted |-> TRUE, text |-> text]
             ELSE IF f.boom
             THEN [docs |-> <<>>, raised |-> TRUE, extracted |-> TRUE, text |-> text]
             ELSE [docs |-> chunk_documents(f, f.nodes), raised |-> FALSE,
                   extracted |-> TRUE, text |-> text]

\* directory.rglob(f"*{ext}") for the extensions in the order of the
\* configuration: the files of the directory whose name ends in ext
RECURSIVE Globbed(_, _)
Globbed(files, k) ==
    IF k > Len(SupportedOrder) THEN <<>>
    ELSE LET Ends(f) == f.ext = SupportedOrder[k]
         IN  SelectSeq(files, Ends) \o Globbed(files, k + 1)

RECURSIVE CollectAborting(_)
\* a collection loop without the per-file try / except: the first
\* exception ends it
CollectAborting(listed) ==
    IF listed = <<>> THEN [docs |-> <<>>, raised |-> FALSE]
    ELSE LET r == process_file(Head(listed))
             rest == CollectAborting(Tail(listed))
         IN  IF r.raised \/ rest.raised THEN [docs |-> <<>>, raised |-> TRUE]
             ELSE [docs |-> r.docs \o rest.docs, raised |-> FALSE]

RECURSIVE Collect(_)
\* lines 163-169 of DocumentProcessor.process_directory: the documents of
\* every listed file; a file that raises is skipped
Collect(listed) ==
    IF listed = <<>> THEN [docs |-> <<>>, raised |-> FALSE]
    ELSE LET r == process_file(Head(listed))
             rest == Collect(Tail(listed))
         IN  [docs |-> (IF r.raised THEN <<>> ELSE r.docs) \o rest.docs,
              raised |-> FALSE]

\* DocumentProcessor.process_directory
processor_process_directory(files) == Collect(Globbed(files, 1))

\* validate_file_upload, for a file that exists: the errors found
validate_file_upload(f) ==
    (IF Lower(f.ext) \notin SUPPORTED_EXTENSIONS THEN {"unsupported_type"} ELSE {})
        \cup (IF too_large(f.size) THEN {"too_large"} ELSE {})

\* the temporary copy process_uploaded_file makes: same suffix, same bytes
TmpName(name) == CASE name = "a" -> "tmp_a" [] name = "b" -> "tmp_b" [] OTHER -> "tmp"
Copy(f) == [f EXCEPT !.name = TmpName(f.name)]

\* DocumentProcessor.process_uploaded_file
process_uploaded_file(f) == process_file(Copy(f))

\* what a handler saw of one file: the result of process_file and the kind
\* of line the handler wrote for it
Report(r, kind) ==
    [docs |-> r.docs, raised |-> r.raised, extracted |-> r.extracted,
     text |-> r.text, kind |-> kind]
NotProcessed == [docs |-> <<>>, raised |-> FALSE, extracted |-> FALSE, text |-> <<>>]

RECURSIVE UploadLoop(_, _, _, _)
\* the loop of lines 115-142 of process_uploaded_files from file i on;
\* acc = [e, coll, reports, processed, errors, added]
UploadLoop(acc, files, envs, i) ==
    IF i > Len(files) THEN acc
    ELSE LET f == files[i]
             r == process_uploaded_file(f)
             a == add_documents(acc.e, acc.coll, r.docs, envs[i])
         IN  IF validate_file_upload(f) # {}
             THEN UploadLoop([acc EXCEPT
                      !.reports = Append(@, Report(NotProcessed, "invalid")),
                      !.errors = @ + 1], files, envs, i + 1)
             ELSE IF r.raised
             THEN UploadLoop([acc EXCEPT
                      !.reports = Append(@, Report(r, "exception")),
                      !.errors = @ + 1], files, envs, i + 1)
             ELSE IF r.docs # <<>>
             THEN IF a.raised
                  THEN UploadLoop([acc EXCEPT
                           !.e = a.e, !.coll = a.coll, !.added = @ + a.added,
                           !.reports = Append(@, Report(r, "exception")),
                           !.errors = @ + 1], files, envs, i + 1)
                  ELSE UploadLoop([acc EXCEPT
                           !.e = a.e, !.coll = a.coll, !.added = @ + a.added,
                           !.reports = Append(@, Report(r, "ok")),
                           !.processed = @ + 1], files, envs, i + 1)
             ELSE UploadLoop([acc EXCEPT
                      !.reports = Append(@, Report(r, "no_content")),
                      !.errors = @ + 1], files, envs, i + 1)

\* app.process_uploaded_files: files are the uploads, envs[i] the outcomes
\* of the library calls inside the add_documents of file i.  One request
\* per session is followed.
process_uploaded_files(files, envs) ==
    /\ next_batch = 1
    /\ Len(envs) = Len(files)
    /\ IF ~HasEngine
       THEN /\ last' = [Idle EXCEPT !.op = "upload", !.msg = "not_initialized",
                                    !.files = files]
            /\ UNCHANGED <<rag_engine, collection, session_added>>
       ELSE IF files = <<>>
       THEN /\ last' = [Idle EXCEPT !.op = "upload", !.msg = "no_files",
                                    !.pre_index = HasIndex]
            /\ UNCHANGED <<rag_engine, collection, session_added>>
       ELSE LET r == UploadLoop([e |-> Engine, coll |-> collection, reports |-> <<>>,
                                 processed |-> 0, errors |-> 0, added |-> 0],
                                files, envs, 1)
            IN  /\ rag_engine' = <<r.e>>
                /\ collection' = r.coll
                /\ session_added' = session_added + r.added
                /\ last' = [Idle EXCEPT !.op = "upload", !.ok = TRUE,
                              !.msg = "summary", !.files = files, !.envs = envs,
                              !.reports = r.reports, !.inserted = r.added,
                              !.processed_count = r.processed,
                              !.error_count = r.errors, !.pre_index = HasIndex]
    /\ next_batch' = next_batch + 1
    /\ UNCHANGED <<handlers, chat_history, answered, saved_files>>

\* utils.get_directory_info: the number of supported files it counts
supported_files(files) ==
    Cardinality({i \in 1..Len(files) : Lower(files[i].ext) \in SUPPORTED_EXTENSIONS})

\* app.process_directory on a directory that exists and holds `files`; env
\* as in process_directory.  One request per session is followed.
process_directory_files(files, env) ==
    /\ next_batch = 1
    /\ HasEngine
    /\ IF supported_files(files) = 0
       THEN /\ last' = [Idle EXCEPT !.op = "directory", !.msg = "no_supported_files",
                                    !.files = files, !.pre_index = HasIndex]
            /\ UNCHANGED <<rag_engine, collection, session_added>>
       ELSE LET d == processor_process_directory(files)
                r == IF d.raised THEN Result(Engine, collection, TRUE, 0)
                     ELSE process_and_add(Engine, collection, d.docs, env)
                Listed(f) == f.ext \in SUPPORTED_EXTENSIONS
            IN  /\ rag_engine' = <<r.e>>
                /\ collection' = r.coll
                /\ session_added' = session_added + r.added
                /\ last' = [Idle EXCEPT !.op = "directory", !.ok = ~r.raised,
                              !.raised = r.raised,
                              !.msg = IF r.raised THEN "error" ELSE "success",
                              !.files = files, !.envs = <<env>>,
                              !.reports = [i \in 1..Len(files) |->
                                  IF Listed(files[i])
                                  THEN Report(process_file(files[i]), "")
                                  ELSE Report(NotProcessed, "unlisted")],
                              !.n = Len(d.docs), !.inserted = r.added,
                              !.pre_index = HasIndex]
    /\ next_batch' = next_batch + 1
    /\ UNCHANGED <<handlers, chat_history, answered, saved_files>>

\* RAGCLIApp.add_documents for one path that is a file, through
\* RAGEngine.process_and_add_file.  One request per session is followed.
add_file(f, env) ==
    /\ next_batch = 1
    /\ HasEngine
    /\ LET p == process_file(f)
           r == IF p.raised THEN Result(Engine, collection, TRUE, 0)
                ELSE process_and_add(Engine, collection, p.docs, env)
       IN  /\ rag_engine' = <<r.e>>
           /\ collection' = r.coll
           /\ session_added' = session_added + r.added
           /\ last' = [Idle EXCEPT !.op = "file", !.ok = ~r.raised,
                         !.raised = r.raised,
                         !.msg = IF r.raised THEN "error" ELSE "added",
                         !.files = <<f>>, !.envs = <<env>>,
                         !.reports = <<Report(p, IF r.raised THEN "error" ELSE "added")>>,
                         !.n = Len(p.docs), !.inserted = r.added,
                         !.pre_index = HasIndex]
    /\ next_batch' = next_batch + 1
    /\ UNCHANGED <<handlers, chat_history, answered, saved_files>>

\* ------------------------------------------------------ the files tried
MaxNodes == 2
CapBytes == MAX_FILE_SIZE_MB * BytesPerMB
Body == <<"t">>
Blank == <<" ">>

\* one file of every kind the processing distinguishes; attributes the
\* code never reads for a file are held at one value
Relevant(f) ==
    LET rest(conv, text, readable, raw, nodes, boom) ==
            /\ conv => f.conv = "ok"
            /\ text => f.text = Body
            /\ readable => f.readable
            /\ raw => f.raw = Body
            /\ nodes => f.nodes = 1
            /\ boom => ~f.boom
        split(t) ==
            IF t = <<>> THEN f.nodes = 1 /\ ~f.boom
            ELSE IF Strip(t) = <<>> THEN f.nodes <= 1 /\ ~f.boom
            ELSE f.nodes >= 1 /\ (f.boom => f.nodes = 1)
    IN  IF f.ext \in {".exe", ".TXT"} \/ f.size > CapBytes
        THEN rest(TRUE, TRUE, TRUE, TRUE, TRUE, TRUE)
        ELSE IF f.conv = "ok"
        THEN /\ rest(FALSE, FALSE, TRUE, TRUE, FALSE, FALSE)
             /\ split(Strip(f.text))
        ELSE IF f.ext # ".txt"
        THEN rest(FALSE, TRUE, TRUE, TRUE, TRUE, TRUE)
        ELSE IF ~f.readable
        THEN rest(FALSE, TRUE, FALSE, TRUE, TRUE, TRUE)
        ELSE /\ rest(FALSE, TRUE, FALSE, FALSE, FALSE, FALSE)
             /\ split(f.raw)

FileKinds ==
    {f \in [name : {"a"}, ext : {".txt", ".pdf", ".TXT", ".exe"},
            size : {CapBytes, CapBytes + 1}, conv : {"ok", "raises"},
            text : {<<>>, Blank, Body}, readable : BOOLEAN,
            raw : {<<>>, Blank, Body}, nodes : 0..MaxNodes, boom : BOOLEAN] :
        Relevant(f)}

Named(f, name) == [f EXCEPT !.name = name]

\* the second file of a two-file batch: a .pdf that yields MaxNodes chunks,
\* one with no text, one whose conversion raises, one whose split raises
Companions ==
    {f \in FileKinds :
        /\ f.ext = ".pdf" /\ f.size = CapBytes /\ f.text # Blank
        /\ (f.conv = "ok" /\ f.text = Body /\ ~f.boom) => f.nodes = MaxNodes}

\* the directories and uploads tried: up to MaxFiles files, named a, b
Batches ==
    {<<>>} \cup {<<Named(f, "a")>> : f \in FileKinds}
           \cup {<<Named(f, "a"), Named(g, "b")>> : f \in FileKinds, g \in Companions}
           \cup {<<Named(g, "a"), Named(f, "b")>> : f \in FileKinds, g \in Companions}

\* one environment for every point at which initialize_system can stop
DocInitEnvs ==
    {env \in InitEnvs :
        /\ env.model \in {"ok", "download_failed"}
        /\ env.model # "ok" => env.vs
        /\ ~env.vs => env.load
        /\ ~env.load => env.qe}

\* the initialisations that come before the session's ingest request
InitializeBeforeIngest(env) ==
    /\ next_batch = 1
    /\ initialize_rag_system(TRUE, env)
DocIngestEnvs ==
    {env \in IngestEnvs : env.count /\ env.fail <= 1 /\ (env.fail = 1 => env.vs /\ env.qe)}
UploadEnvs == {env \in DocIngestEnvs : env.vs}

NextDocs ==
    \/ \E env \in DocInitEnvs : InitializeBeforeIngest(env)
    \/ \E files \in Batches, env \in DocIngestEnvs : process_directory_files(files, env)
    \/ \E files \in Batches :
          \E envs \in [1..Len(files) -> UploadEnvs] : process_uploaded_files(files, envs)
    \/ \E f \in FileKinds, env \in DocIngestEnvs : add_file(Named(f, "a"), env)

SpecDocs == Init /\ [][NextDocs]_vars

\* ------------------------------------------------- claims C14 to C19
\* The handlers record in last.files the files they were given and in
\* last.reports, position by position, what process_file did with each.

\* the chunks this session's requests inserted: insertions go to the end of
\* the collection
Added == SubSeq(collection, Len(collection) - session_added + 1, Len(collection))

\* C14: every file that process_file turns into n chunks gets them back in
\* order with chunk_id 0, 1, ..., n-1, every chunk carrying total_chunks = n
\* and the file's own file_path, file_name, file_type and file_size.
C14_ChunksNumbered ==
    \A i \in 1..Len(last.reports) :
        LET docs == last.reports[i].docs
            n == Len(docs)
            f == last.files[i]
        IN  \A k \in 1..n :
                /\ docs[k].metadata.chunk_id = k - 1
                /\ docs[k].metadata.total_chunks = n
                /\ docs[k].text = <<docs[1].metadata.file_path, k>>
                /\ docs[k].metadata.file_path = docs[1].metadata.file_path
                /\ docs[k].metadata.file_name = docs[1].metadata.file_name
                /\ docs[k].metadata.file_path \in {f.name, TmpName(f.name)}
                /\ docs[k].metadata.file_type = Lower(f.ext)
                /\ docs[k].metadata.file_size = f.size

C14_Witness ==
    \E i \in 1..Len(last.reports) :
        /\ Len(last.reports[i].docs) = MaxNodes
        /\ last.reports[i].docs[MaxNodes].metadata.chunk_id = MaxNodes - 1

\* C15: an uploaded file that is supported and within the cap and whose
\* extraction yields empty text gives no chunks, is reported with the "no
\* content" line, and is not counted among the errors of the summary.
C15_EmptyTextNotAnError ==
    (last.op = "upload" /\ last.msg = "summary") =>
        \A i \in 1..Len(last.reports) :
            (last.reports[i].extracted /\ last.files[i].conv = "ok"
                /\ last.reports[i].text = <<>>) =>
                /\ last.reports[i].docs = <<>>
                /\ last.reports[i].kind = "no_content"
                /\ last.error_count =
                       Cardinality({j \in 1..Len(last.reports) :
                           last.reports[j].kind \in {"invalid", "exception"}})

\* C16: within one request, a file whose extraction succeeded with empty
\* text is told apart, by what process_file returns or the handler reports,
\* from one whose extraction failed, one of an unsupported type and one
\* over the size cap.
C16_EmptyTextDistinct ==
    \A i, j \in 1..Len(last.reports) :
        LET Seen(k) == <<last.reports[k].docs, last.reports[k].raised,
                         last.reports[k].kind>>
            Empty(k) == /\ last.reports[k].extracted
                        /\ last.files[k].conv = "ok"
                        /\ last.reports[k].text = <<>>
            Other(k) == \/ last.reports[k].extracted /\ last.files[k].conv = "raises"
                              /\ last.reports[k].text = <<>>
                        \/ Lower(last.files[k].ext) \notin SUPPORTED_EXTENSIONS
                        \/ last.files[k].size > CapBytes
        IN  (Empty(i) /\ Other(j) /\ last.reports[j].kind # "unlisted")
                => Seen(i) # Seen(j)

\* C17, as stated: a file whose conversion raises contributes no chunks,
\* whatever its (supported) type.
C17_ConverterFailureNoChunks ==
    \A i \in 1..Len(last.reports) :
        (last.reports[i].extracted /\ last.files[i].conv = "raises") =>
            last.reports[i].docs = <<>>

\* C17, as the code has it: when the conversion raises, the text comes from
\* the fallback.  A readable .txt / .md file is chunked from its raw
\* content; any other type, and an unreadable or empty text file, gives no
\* chunks.  The raise never leaves process_file, and a directory request
\* still collects the chunks of every file.
C17_ConverterFailureFallback ==
    /\ \A i \in 1..Len(last.reports) :
          LET f == last.files[i]
              r == last.reports[i]
              plain == Lower(f.ext) \in {".txt", ".md"} /\ f.readable
          IN  (r.extracted /\ f.conv = "raises") =>
                  /\ r.text = IF plain THEN f.raw ELSE <<>>
                  /\ ~plain => r.docs = <<>>
                  /\ (plain /\ f.raw # <<>> /\ ~f.boom) => Len(r.docs) = f.nodes
                  /\ r.raised => f.boom
    /\ (last.op = "directory" /\ last.msg # "no_supported_files") =>
          \A i \in 1..Len(last.reports) :
              Len(last.reports[i].docs) <= last.n

C17_Witness ==
    /\ Len(last.reports) = 2
    /\ \E i, j \in 1..2 :
          /\ last.files[i].conv = "raises" /\ last.files[i].ext = ".txt"
          /\ last.reports[i].docs # <<>>
          /\ last.files[j].conv = "raises" /\ last.files[j].ext = ".pdf"
          /\ last.reports[j].extracted /\ last.reports[j].docs = <<>>

\* C18: in a directory or multi-file upload whose insertions do not fail,
\* every file that process_file turned into chunks has all of them in the
\* collection when the request returns, whatever happened to the other
\* files of the batch.
C18_BatchSurvivesFileFailure ==
    (last.op \in {"directory", "upload"}) =>
        \A i \in 1..Len(last.reports) :
            LET env == IF last.op = "upload" THEN last.envs[i] ELSE last.envs[1]
                docs == last.reports[i].docs
            IN  (docs # <<>> /\ env.vs /\ env.fail = 0) =>
                    \A k \in 1..Len(docs) :
                        \E c \in 1..Len(Added) : Added[c] = docs[k]

C18_Witness ==
    /\ last.op \in {"directory", "upload"}
    /\ Len(last.reports) = 2
    /\ \E i, j \in 1..2 :
          /\ last.reports[i].raised
          /\ Len(last.reports[j].docs) = MaxNodes
          /\ \A k \in 1..MaxNodes :
                \E c \in 1..Len(Added) : Added[c] = last.reports[j].docs[k]

\* C19: on every path a file over the cap is never handed to extraction,
\* gives no chunks and none of its chunks reaches the collection; a
\* request made of such files alone inserts nothing.  A supported file of
\* exactly the cap that process_file is called on is handed to extraction.
C19_SizeCap ==
    /\ \A i \in 1..Len(last.reports) :
          LET f == last.files[i]
              r == last.reports[i]
          IN  /\ f.size > CapBytes =>
                    /\ ~r.extracted
                    /\ r.docs = <<>>
                    /\ \A n \in 1..(MaxNodes + 1), k \in 1..(MaxNodes + 1) :
                          k <= n =>
                              \A c \in 1..Len(Added) :
                                  /\ Added[c] # chunk_documents(f, n)[k]
                                  /\ Added[c] # chunk_documents(Copy(f), n)[k]
              /\ (f.size = CapBytes /\ Lower(f.ext) \in SUPPORTED_EXTENSIONS
                      /\ r.kind # "unlisted") => r.extracted
    /\ (last.reports # <<>> /\ \A i \in 1..Len(last.files) : last.files[i].size > CapBytes)
          => last.inserted = 0

C19_Witness ==
    /\ Len(last.reports) = 2
    /\ \E i, j \in 1..2 :
          /\ last.files[i].size = CapBytes + 1 /\ ~last.reports[i].extracted
          /\ last.files[j].size = CapBytes /\ last.reports[j].docs # <<>>
          /\ last.inserted = Len(last.reports[j].docs)

\* --------------------------------------------------------- chat history
MaxHistory == 2

\* an entry put in front of the history instead of at its end
history_prepend(history, entry) == <<entry>> \o history

\* chat_history.append(entry)
history_append(history, entry) == Append(history, entry)

\* a handler turns a question away: nothing is recorded
Rejected(surface, why) ==
    /\ last' = [Idle EXCEPT !.op = "chat", !.msg = why, !.path = surface]
    /\ UNCHANGED <<chat_history, answered>>

\* a handler returns an answer: `answered` notes what it returned, and
\* `last` what the index matched for the question (ranked) and which of
\* these nodes the query engine of line 245 gave to answer synthesis
Answered(surface, entry, ranked) ==
    /\ Len(chat_history) < MaxHistory
    /\ chat_history' = history_append(chat_history, entry)
    /\ answered' = Append(answered, [surface |-> surface, question |-> entry.question,
                                      response |-> entry.response])
    /\ last' = [Idle EXCEPT !.op = "chat", !.msg = "answer", !.path = surface,
                            !.out = entry.response, !.docs = entry.sources,
                            !.hits = ranked, !.bound = synthesis_nodes(ranked)]

\* a session talks to one front end
Session(surface) == IF answered = <<>> THEN TRUE ELSE answered[1].surface = surface

\* app.chat_with_rag: g and ret are what generation and retrieval do for
\* the message, fmt whether format_sources returns
chat_with_rag(message, g, ret, fmt) ==
    /\ Session("ui")
    /\ IF ~HasQueryEngine THEN Rejected("ui", "not_ready")
       ELSE IF Strip(message) = <<>> THEN Rejected("ui", "empty")
       ELSE LET response == query(Engine, g).out
                relevant_docs == get_relevant_documents(Engine, ret, 3).docs
            IN  IF relevant_docs # <<>> /\ ~fmt THEN Rejected("ui", "error")
                ELSE Answered("ui", [timestamp |-> Len(chat_history) + 1,
                                     question |-> message, response |-> response,
                                     sources |-> relevant_docs], ret.ranked)
    /\ UNCHANGED <<rag_engine, collection, next_batch, session_added, handlers,
                   saved_files>>

\* RAGCLIApp.query_single
query_single(question, g, ret, fmt) ==
    IF ~HasQueryEngine THEN Rejected("cli", "not_ready")
    ELSE LET response == query(Engine, g).out
             relevant_docs == get_relevant_documents(Engine, ret, 3).docs
         IN  IF relevant_docs # <<>> /\ ~fmt THEN Rejected("cli", "error")
             ELSE Answered("cli", [question |-> question, response |-> response,
                                   sources |-> relevant_docs], ret.ranked)

\* one turn of RAGCLIApp.interactive_chat on an input line that is neither
\* a command nor a quit word
interactive_chat(input, g, ret, fmt) ==
    /\ Session("cli")
    /\ IF Strip(input) = <<>> THEN Rejected("cli", "empty")
       ELSE query_single(Strip(input), g, ret, fmt)
    /\ UNCHANGED <<rag_engine, collection, next_batch, session_added, handlers,
                   saved_files>>

Messages == {Blank, <<"q">>, <<"r", " ">>}
ChatGens == {g \in ShortGenOutcomes : g.toks = <<<<"a">>>> /\ g.fail \in {NoFail, 0}}
ChatSources == {[raised |-> FALSE, ranked |-> DisplayHits(n, 1)] : n \in 0..1}
ChatInitEnvs == {env \in InitEnvs : env.model = "ok" /\ env.vs /\ env.load}

NextChat ==
    \/ \E env \in ChatInitEnvs : initialize_rag_system(TRUE, env)
    \/ \E m \in Messages, g \in ChatGens, ret \in ChatSources, fmt \in BOOLEAN :
          chat_with_rag(m, g, ret, fmt)
    \/ \E m \in Messages, g \in ChatGens, ret \in ChatSources, fmt \in BOOLEAN :
          interactive_chat(m, g, ret, fmt)

SpecChat == Init /\ [][NextChat]_vars

\* C20: the chat history holds exactly the answers returned, in the order
\* they were returned, one entry each; an append leaves the earlier entries
\* as they were, and a question turned away as not-ready or empty adds
\* none.
C20_HistoryInOrder ==
    /\ [](/\ Len(chat_history) = Len(answered)
          /\ \A i \in 1..Len(answered) :
                /\ chat_history[i].question = answered[i].question
                /\ chat_history[i].response = answered[i].response)
    /\ [][/\ Len(chat_history') \in {Len(chat_history), Len(chat_history) + 1}
          /\ \A i \in 1..Len(chat_history) : chat_history'[i] = chat_history[i]
          /\ (last'.op = "chat" /\ last'.msg \in {"not_ready", "empty"})
                => chat_history' = chat_history]_vars

C20_Witness ==
    /\ Len(chat_history) >= 2
    /\ chat_history[1].question # chat_history[2].question
    /\ chat_history[1].response # chat_history[2].response
    /\ last.op = "chat" /\ last.msg \in {"not_ready", "empty"}

\* ------------------------------------------------- saving the history
\* A JSON value is <<"string", s>>, <<"number", n>>, <<"array", values>> or
\* <<"object", members>>, members being the <<key, value>> pairs in the
\* order they are written.
MaxSaves == 2

JString(s) == <<"string", s>>
JNumber(n) == <<"number", n>>
JArray(values) == <<"array", values>>
JObject(members) == <<"object", members>>

\* the keys a chat entry can have, in the order the handlers insert them
EntryKeys == <<"timestamp", "question", "response", "sources">>

\* json.dump of one source: {"content", "score", "metadata"}
dump_source(src) ==
    JObject(<< <<"content", JString(src.content)>>, <<"score", JNumber(src.score)>>,
               <<"metadata", JString(src.metadata)>> >>)

\* json.dump of the value under key k of a chat entry
dump_field(k, v) ==
    IF k = "sources" THEN JArray([i \in 1..Len(v) |-> dump_source(v[i])])
    ELSE IF k = "timestamp" THEN JNumber(v)
    ELSE JString(v)

\* json.dump of one chat entry: the keys the dict has, in insertion order
dump_entry(entry) ==
    LET Has(k) == k \in DOMAIN entry
        keys == SelectSeq(EntryKeys, Has)
    IN  JObject([i \in 1..Len(keys) |-> <<keys[i], dump_field(keys[i], entry[keys[i]])>>])

\* json.dump(chat_history, f): an array with one object per entry
dump(history) == JArray([i \in 1..Len(history) |-> dump_entry(history[i])])

\* the keys of a JSON object
Keys(obj) == {obj[2][i][1] : i \in 1..Len(obj[2])}

\* the value under key k of a JSON object
Member(obj, k) == LET i == CHOOSE j \in 1..Len(obj[2]) : obj[2][j][1] = k IN obj[2][i][2]

RECURSIVE parse(_)
\* json.load: strings and numbers to their values, arrays to lists,
\* objects to dicts
parse(j) ==
    IF j[1] = "array" THEN [i \in 1..Len(j[2]) |-> parse(j[2][i])]
    ELSE IF j[1] = "object" THEN [k \in Keys(j) |-> parse(Member(j, k))]
    ELSE j[2]

\* the second the clock showed at the last save (0: none yet)
LastSecond == IF saved_files = <<>> THEN 0 ELSE saved_files[Len(saved_files)].name

\* what LOGS_DIR holds under a name: the content of the last write to it
FileContent(name) ==
    LET Hits == {i \in 1..Len(saved_files) : saved_files[i].name = name}
        i == CHOOSE j \in Hits : \A h \in Hits : h <= j
    IN  saved_files[i].content

\* load_chat_history(filepath) of a file that can be read
load_chat_history(name) == parse(FileContent(name))

\* utils.save_chat_history(chat_history) without a filename: elapsed is the
\* number of whole seconds the clock has moved since the last save (the
\* name is chat_history_<YYYYmmdd_HHMMSS>.json), ok whether open and
\* json.dump return.  Names are the seconds themselves.
save_chat_history(surface, elapsed, ok) ==
    IF chat_history = <<>>
    THEN /\ last' = [Idle EXCEPT !.op = "save", !.msg = "nothing_to_save",
                                 !.path = surface]
         /\ UNCHANGED saved_files
    ELSE IF ~ok
    THEN /\ last' = [Idle EXCEPT !.op = "save", !.msg = "failed", !.path = surface]
         /\ UNCHANGED saved_files
    ELSE LET name == LastSecond + elapsed
             write == [name |-> name, content |-> dump(chat_history)]
         IN  /\ Len(saved_files) < MaxSaves
             /\ saved_files' = Append(saved_files, write)
             /\ last' = [Idle EXCEPT !.op = "save", !.ok = TRUE, !.msg = "saved",
                            !.path = surface, !.n = name,
                            !.written = write.content,
                            !.loaded = parse(write.content)]

\* app.save_current_chat_history
save_current_chat_history(elapsed, ok) ==
    /\ Session("ui")
    /\ save_chat_history("ui", elapsed, ok)
    /\ UNCHANGED <<rag_engine, collection, next_batch, session_added, handlers,
                   chat_history, answered>>

\* RAGCLIApp.handle_chat_command("/save")
handle_chat_command_save(elapsed, ok) ==
    /\ Session("cli")
    /\ save_chat_history("cli", elapsed, ok)
    /\ UNCHANGED <<rag_engine, collection, next_batch, session_added, handlers,
                   chat_history, answered>>

SaveMessages == {<<"q">>, <<"r">>}
SaveInitEnvs == {env \in ChatInitEnvs : env.qe}

NextSave ==
    \/ \E env \in SaveInitEnvs : initialize_rag_system(TRUE, env)
    \/ \E m \in SaveMessages, g \in ChatGens, ret \in ChatSources :
          chat_with_rag(m, g, ret, TRUE)
    \/ \E m \in SaveMessages, g \in ChatGens, ret \in ChatSources :
          interactive_chat(m, g, ret, TRUE)
    \/ \E elapsed \in 0..1, ok \in BOOLEAN : save_current_chat_history(elapsed, ok)
    \/ \E elapsed \in 0..1, ok \in BOOLEAN : handle_chat_command_save(elapsed, ok)

SpecSave == Init /\ [][NextSave]_vars

\* C21: a save of n entries writes an array of n objects in the same
\* order, each with the keys timestamp, question, response and sources, and
\* loading the file gives the saved history back, for UI and CLI histories.
C21_SaveLoadRoundTrip ==
    (last.op = "save" /\ last.msg = "saved") =>
        /\ last.written[1] = "array"
        /\ Len(last.written[2]) = Len(chat_history)
        /\ \A i \in 1..Len(chat_history) :
              /\ Keys(last.written[2][i]) = {"timestamp", "question", "response", "sources"}
              /\ Member(last.written[2][i], "question") = JString(chat_history[i].question)
        /\ last.loaded = chat_history
        /\ load_chat_history(last.n) = chat_history

\* C22: no two saves write to the same file name, and no save writes an
\* empty history.
C22_OneFilePerSave ==
    /\ \A i, j \in 1..Len(saved_files) :
          i # j => saved_files[i].name # saved_files[j].name
    /\ \A i \in 1..Len(saved_files) : saved_files[i].content # dump(<<>>)

\* ------------------------------------------- operations that only read
\* a status report that drops the query engine it reports on
show_status_resetting(count_ok) ==
    /\ HasEngine
    /\ rag_engine' = <<[Engine EXCEPT !.query_engine = NoObj]>>
    /\ last' = [Idle EXCEPT !.op = "cli_status", !.report = status_info,
                  !.stats = IF HasIndex THEN get_index_stats(Engine, collection, count_ok)
                            ELSE NoStats]
    /\ UNCHANGED <<collection, next_batch, session_added, handlers, chat_history,
                   answered, saved_files>>

\* RAGCLIApp.show_status: the flags, and the index statistics when there is
\* an index
show_status(count_ok) ==
    /\ HasEngine
    /\ last' = [Idle EXCEPT !.op = "cli_status", !.report = status_info,
                  !.stats = IF HasIndex THEN get_index_stats(Engine, collection, count_ok)
                            ELSE NoStats]
    /\ UNCHANGED <<rag_engine, collection, next_batch, session_added, handlers,
                   chat_history, answered, saved_files>>

FrameRetrieverOutcomes == {ret \in RetrieverOutcomes : Len(ret.ranked) <= 1}

NextFrame ==
    \/ \E env \in RetrievalInitEnvs : initialize_rag_system(TRUE, env)
    \/ \E env \in RetrievalIngestEnvs : process_directory("ok", 1, env)
    \/ \E surface \in {"wrapper", "engine"}, g \in ShortGenOutcomes : Query(surface, g)
    \/ \E g \in ShortGenOutcomes : QueryStreaming(g)
    \/ \E ret \in FrameRetrieverOutcomes, top_k \in TopKs : relevant_documents(ret, top_k)
    \/ \E count_ok \in BOOLEAN : get_system_status(count_ok)
    \/ \E count_ok \in BOOLEAN : show_status(count_ok)

SpecFrame == Init /\ [][NextFrame]_vars

\* C23: query, query_streaming, get_relevant_documents, get_index_stats and
\* the status reports leave the engine (model, vector store, index, query
\* engine) and the collection as they were, whether they succeed or fail.
C23_ReadOnlyOperations ==
    [][last'.op \in {"query", "stream", "relevant", "status", "cli_status"}
          => (rag_engine' = rag_engine /\ collection' = collection)]_vars

C23_Witness ==
    /\ last.op = "query" /\ last.path = "engine" /\ last.gen.fail # NoFail
    /\ HasQueryEngine /\ HasIndex /\ Len(collection) > 0

\* ----------------------------------------------------------- the prompt
\* A text is a sequence of words; the fixed wording of the prompt is one
\* word per phrase.
MaxWords == 3
Instruction == "Based on the following context, please answer the question. If the context doesn't contain enough information to answer the question, please say so."
WordSeqs == UNION {[1..n -> Symbols] : n \in 0..MaxWords}

\* utils.create_chat_prompt
create_chat_prompt(question, context) ==
    IF context # <<>>
    THEN <<Instruction, "Context:">> \o context \o <<"Question:">> \o question
             \o <<"Answer:">>
    ELSE <<"Question:">> \o question \o <<"Answer:">>

\* a call of create_chat_prompt
build_prompt(question, context) ==
    /\ last' = [Idle EXCEPT !.op = "prompt", !.question = question,
                            !.context = context,
                            !.out = create_chat_prompt(question, context)]
    /\ UNCHANGED <<rag_engine, collection, next_batch, session_added, handlers,
                   chat_history, answered, saved_files>>

NextPrompt ==
    \E question \in WordSeqs \ {<<>>}, context \in WordSeqs : build_prompt(question, context)

SpecPrompt == Init /\ [][NextPrompt]_vars

\* C24: for every question and context, the empty context included, the
\* prompt holds the context, after it the question, and after the question
\* the instruction to say so when the context is not enough.
C24_PromptLayout ==
    last.op = "prompt" =>
        \E c, q, i \in 1..(Len(last.out) + 1) :
            /\ c + Len(last.context) <= q
            /\ q + Len(last.question) <= i
            /\ i <= Len(last.out)
            /\ SubSeq(last.out, c, c + Len(last.context) - 1) = last.context
            /\ SubSeq(last.out, q, q + Len(last.question) - 1) = last.question
            /\ last.out[i] = Instruction

\* ------------------------------------------------------ directory info
\* A directory tree is the sequence of entries directory.rglob("*") yields;
\* an entry is [file, ext, size]: whether it is a regular file, its suffix
\* and its size in bytes.
MaxEntries == 3
TreeExts == {".txt", ".TXT", ".pdf", ".exe"}
Entries == [file : BOOLEAN, ext : TreeExts, size : {1}]
Trees == UNION {[1..n -> {e \in Entries : e.file \/ e.ext = ".txt"}] : n \in 0..MaxEntries}

\* the report before the scan (lines 44-52)
EmptyInfo ==
    [total_files |-> 0, supported_files |-> 0,
     file_types |-> [x \in {Lower(y) : y \in TreeExts} |-> 0],
     total_size |-> 0, files |-> <<>>, error |-> FALSE]

RECURSIVE ScanAll(_, _, _, _, _)
\* a scan that counts every entry, directories included
ScanAll(info, tree, i, fail, at) ==
    IF i > Len(tree) THEN info
    ELSE LET e == tree[i]
             ext == Lower(e.ext)
             counted == [info EXCEPT !.total_files = @ + 1]
             sized == [counted EXCEPT !.total_size = @ + e.size,
                                      !.file_types[ext] = @ + 1]
             supported == [sized EXCEPT !.supported_files = @ + 1]
             listed == [supported EXCEPT !.files = Append(@, [ext |-> ext, size |-> e.size])]
         IN  IF fail = i /\ at = "size" THEN [counted EXCEPT !.error = TRUE]
             ELSE IF ext \notin SUPPORTED_EXTENSIONS
             THEN ScanAll(sized, tree, i + 1, fail, at)
             ELSE IF fail = i /\ at = "modified" THEN [supported EXCEPT !.error = TRUE]
             ELSE ScanAll(listed, tree, i + 1, fail, at)

RECURSIVE Scan(_, _, _, _, _)
\* lines 54-79 of get_directory_info from entry i on; the stat() call for
\* the size (at = "size") or for the modification time (at = "modified")
\* of entry number `fail` raises (0: none does), which ends the scan
Scan(info, tree, i, fail, at) ==
    IF i > Len(tree) THEN info
    ELSE LET e == tree[i]
             ext == Lower(e.ext)
             counted == [info EXCEPT !.total_files = @ + 1]
             sized == [counted EXCEPT !.total_size = @ + e.size,
                                      !.file_types[ext] = @ + 1]
             supported == [sized EXCEPT !.supported_files = @ + 1]
             listed == [supported EXCEPT !.files = Append(@, [ext |-> ext, size |-> e.size])]
         IN  IF ~e.file THEN Scan(info, tree, i + 1, fail, at)
             ELSE IF fail = i /\ at = "size" THEN [counted EXCEPT !.error = TRUE]
             ELSE IF ext \notin SUPPORTED_EXTENSIONS
             THEN Scan(sized, tree, i + 1, fail, at)
             ELSE IF fail = i /\ at = "modified" THEN [supported EXCEPT !.error = TRUE]
             ELSE Scan(listed, tree, i + 1, fail, at)

\* utils.get_directory_info on a directory that exists
get_directory_info(tree, fail, at) == Scan(EmptyInfo, tree, 1, fail, at)

\* a call of get_directory_info; one scan per behaviour is followed
directory_info(tree, fail, at) ==
    /\ last.op = "none"
    /\ fail <= Len(tree)
    /\ fail > 0 => tree[fail].file
    /\ fail = 0 => at = "size"
    /\ last' = [Idle EXCEPT !.op = "dir_info", !.files = tree,
                            !.info = get_directory_info(tree, fail, at)]
    /\ UNCHANGED <<rag_engine, collection, next_batch, session_added, handlers,
                   chat_history, answered, saved_files>>

NextDirInfo ==
    \E tree \in Trees, fail \in 0..MaxEntries, at \in {"size", "modified"} :
        directory_info(tree, fail, at)

SpecDirInfo == Init /\ [][NextDirInfo]_vars

\* the sum of the per-extension counts of a report
TypesTotal(info) ==
    LET exts == DOMAIN info.file_types
        RECURSIVE Sum(_)
        Sum(S) == IF S = {} THEN 0
                  ELSE LET x == CHOOSE y \in S : TRUE
                       IN  info.file_types[x] + Sum(S \ {x})
    IN  Sum(exts)

\* C25: the report of a scan that examined every file has total_files equal
\* to the number of regular files of the tree, supported_files equal to the
\* number of those whose lower-cased extension is supported, as many files
\* listed as supported_files, and per-extension counts that add up to
\* total_files; supported_files never exceeds total_files.
C25_DirectoryInfoCounts ==
    (last.op = "dir_info" /\ ~last.info.error) =>
        LET tree == last.files
            info == last.info
            Regular == {i \in 1..Len(tree) : tree[i].file}
            Supported == {i \in Regular : Lower(tree[i].ext) \in SUPPORTED_EXTENSIONS}
        IN  /\ info.total_files = Cardinality(Regular)
            /\ info.supported_files = Cardinality(Supported)
            /\ info.supported_files <= info.total_files
            /\ Len(info.files) = info.supported_files
            /\ TypesTotal(info) = info.total_files

C25_Witness ==
    /\ last.op = "dir_info" /\ ~last.info.error
    /\ last.info.total_files = 2 /\ last.info.supported_files = 1
    /\ Len(last.files) = 3
    /\ \E i \in 1..3 : last.files[i].ext = ".TXT" /\ last.files[i].file

\* --------------------------------------------------------- batch queries
MaxLines == 3

\* the questions of a file: its lines stripped, blank ones left out
questions_of(lines) ==
    LET NonBlank(l) == Strip(l) # <<>>
        kept == SelectSeq(lines, NonBlank)
    IN  [i \in 1..Len(kept) |-> Strip(kept[i])]

\* lines 237-243: what a result keeps of the sources
batch_sources(sources) ==
    [i \in 1..Len(sources) |->
        [file_name |-> sources[i].metadata, score |-> sources[i].score]]

RECURSIVE BatchLoop_stopping(_, _, _, _)
\* a loop that gives up at the first question whose generation fails
BatchLoop_stopping(e, questions, outs, i) ==
    IF i > Len(questions) THEN <<>>
    ELSE IF outs[i].g.fail # NoFail THEN <<>>
    ELSE <<[question |-> questions[i],
            response |-> query(e, outs[i].g).out,
            sources |-> batch_sources(get_relevant_documents(e, outs[i].ret, 3).docs)]>>
             \o BatchLoop_stopping(e, questions, outs, i + 1)

RECURSIVE BatchLoop(_, _, _, _)
\* lines 227-254 from question i on; outs[i] is what generation and
\* retrieval do for question i.  RAGEngine.query and get_relevant_documents
\* catch every exception themselves, so the except clause of lines 248-254
\* is never entered from them.
BatchLoop(e, questions, outs, i) ==
    IF i > Len(questions) THEN <<>>
    ELSE <<[question |-> questions[i],
            response |-> query(e, outs[i].g).out,
            sources |-> batch_sources(get_relevant_documents(e, outs[i].ret, 3).docs)]>>
             \o BatchLoop(e, questions, outs, i + 1)

\* RAGCLIApp.batch_query on a question file that can be read: lines are its
\* lines, outs the outcomes for its questions, write_ok whether the output
\* file can be written.  One batch per behaviour is followed.
batch_query(lines, outs, write_ok) ==
    /\ last.op # "batch"
    /\ Len(outs) = Len(questions_of(lines))
    /\ IF ~HasQueryEngine
       THEN last' = [Idle EXCEPT !.op = "batch", !.msg = "not_ready", !.files = lines]
       ELSE LET results == BatchLoop(Engine, questions_of(lines), outs, 1)
            IN  last' = [Idle EXCEPT !.op = "batch",
                           !.msg = IF write_ok THEN "complete" ELSE "error",
                           !.ok = write_ok, !.files = lines, !.envs = outs,
                           !.results = IF write_ok THEN results ELSE <<>>]
    /\ UNCHANGED <<rag_engine, collection, next_batch, session_added, handlers,
                   chat_history, answered, saved_files>>

BatchLines == UNION {[1..n -> Messages] : n \in 0..MaxLines}
BatchOutcomes == [g : ChatGens, ret : ChatSources]

NextBatch ==
    \/ \E env \in ChatInitEnvs : initialize_rag_system(TRUE, env)
    \/ \E lines \in BatchLines, write_ok \in BOOLEAN :
          \E outs \in [1..Len(questions_of(lines)) -> BatchOutcomes] :
              batch_query(lines, outs, write_ok)

SpecBatch == Init /\ [][NextBatch]_vars

\* C26, as stated: a batch that completes has one result per non-blank
\* line, in file order, with sources of the form {file_name, score}; a
\* question whose processing fails has an error response and no sources.
C26_BatchOneResultPerLine ==
    (last.op = "batch" /\ last.msg = "complete") =>
        LET questions == questions_of(last.files)
        IN  /\ Len(last.results) = Len(questions)
            /\ \A i \in 1..Len(questions) :
                  /\ last.results[i].question = questions[i]
                  /\ \A k \in 1..Len(last.results[i].sources) :
                        DOMAIN last.results[i].sources[k] = {"file_name", "score"}
                  /\ last.envs[i].g.fail # NoFail =>
                        /\ last.results[i].response = ErrorMsg
                        /\ last.results[i].sources = <<>>

\* C26, as the code has it: one result per non-blank line, in file order;
\* the response is the generated text or, when generation fails, the error
\* text RAGEngine.query returns, and the sources are in either case those
\* the separate retrieval of get_relevant_documents returned.
C26_BatchResults ==
    (last.op = "batch" /\ last.msg = "complete") =>
        LET questions == questions_of(last.files)
        IN  /\ Len(last.results) = Len(questions)
            /\ \A i \in 1..Len(questions) :
                  LET g == last.envs[i].g
                      ret == last.envs[i].ret
                  IN  /\ last.results[i].question = questions[i]
                      /\ last.results[i].response =
                             IF g.fail # NoFail THEN ErrorMsg ELSE Concat(g.toks)
                      /\ Len(last.results[i].sources) =
                             IF ret.raised THEN 0 ELSE Min(3, Len(ret.ranked))
                      /\ \A k \in 1..Len(last.results[i].sources) :
                            /\ DOMAIN last.results[i].sources[k] = {"file_name", "score"}
                            /\ last.results[i].sources[k].score = ret.ranked[k].score
                            /\ last.results[i].sources[k].file_name = ret.ranked[k].file

C26_Witness ==
    /\ last.op = "batch" /\ last.msg = "complete"
    /\ Len(last.files) = 3 /\ Len(last.results) = 2
    /\ last.envs[1].g.fail # NoFail /\ last.results[1].sources # <<>>
    /\ last.envs[2].g.fail = NoFail

\* ---------------------------------------------------------------------
\* Query engine and index
\* ---------------------------------------------------------------------

SourceHits == {h \in GenHits : Len(h) <= 3}
SourceOutcomes == {[raised |-> FALSE, ranked |-> h] : h \in SourceHits}
SourceGens == {g \in ChatGens : g.fail = NoFail}

NextSources ==
    \/ \E env \in ChatInitEnvs : initialize_rag_system(TRUE, env)
    \/ \E ret \in SourceOutcomes, g \in SourceGens, fmt \in BOOLEAN :
          chat_with_rag(<<"q">>, g, ret, fmt)
    \/ \E ret \in SourceOutcomes, g \in SourceGens, fmt \in BOOLEAN :
          interactive_chat(<<"q">>, g, ret, fmt)

SpecSources == Init /\ [][NextSources]_vars

\* the source shown for a node
SourceOf(node) ==
    [content |-> preview(node.text), score |-> node.score, metadata |-> node.file]

\* C28: every source attached to an answer, in the reply and in the chat
\* history entry, is a chunk of the generation-bound retrieval result for
\* the same question: among the retrieved top-k and at or above the
\* similarity cutoff.
C28_SourcesWereGenerationBound ==
    (last.op = "chat" /\ last.msg = "answer") =>
        /\ \A i \in 1..Len(last.docs) :
              \E k \in 1..Len(last.bound) : last.docs[i] = SourceOf(last.bound[k])
        /\ chat_history[Len(chat_history)].sources = last.docs

\* ------------------------------------- what directory ingestion attempts
\* C29: for every directory, the files directory ingestion attempts to
\* process are the files get_directory_info counts as supported, so the
\* "Supported files" number the UI shows is the number of files attempted.
C29_AttemptedEqualsCounted ==
    last.op = "directory" =>
        LET attempted == {i \in 1..Len(last.reports) : last.reports[i].kind # "unlisted"}
            counted == {i \in 1..Len(last.files) :
                           Lower(last.files[i].ext) \in SUPPORTED_EXTENSIONS}
        IN  /\ attempted = counted
            /\ supported_files(last.files) = Cardinality(attempted)

\* ------------------------------------------- reports of ingest success
\* C30: an ingestion success report (CLI "Added file" and "Index updated",
\* UI "Successfully processed N files") is issued for a request only if the
\* request inserted at least one chunk into the index; a request whose
\* files were all rejected or yielded no content is not reported as a
\* success.
C30_SuccessMeansInserted ==
    (last.op \in {"file", "directory"} /\ last.msg \in {"added", "success"})
        => last.inserted >= 1

====
